---- MODULE Spec2Model ----
(***************************************************************************)
(* flexprice-cli: the credential store (config/store.rs), the              *)
(* authenticated HTTP client (api/client.rs) and the one-shot commands     *)
(* that use them (main.rs, cli/auth.rs, cli/<resource>.rs), and the        *)
(* dashboard session (tui/dashboard.rs).                                   *)
(*                                                                         *)
(* A string is a sequence of text pieces (a piece is one character, or a   *)
(* literal of the program kept whole); the empty string is << >>.          *)
(* Option<String> is << >> for None and << s >> for Some(s).               *)
(*                                                                         *)
(* The file system is taken to be reliable: create_dir_all, write, read    *)
(* and remove_file succeed.  The network is the environment: each request  *)
(* has an outcome drawn from NetOutcomes.                                  *)
(***************************************************************************)
EXTENDS Integers, Sequences, FiniteSets, TLC

VARIABLES
    file,       \* content of ~/.flexprice/credentials.json
    dirExists,  \* whether ~/.flexprice exists
    cmd,        \* the operation that ran last
    env,        \* environment variables of that operation
    flags,      \* the global --api-url / --api-key arguments given to it
    creds,      \* the Credentials the operation resolved, loaded or built its client with
    authOk,     \* what is_authenticated() answered, when it was asked
    requests,   \* the HTTP requests the operation sent, in order
    response,   \* what the network answered to the last request
    exit,       \* "none" | "running" | "ok" | "fail"
    output,     \* what the operation printed (its kind)
    saved,      \* << c >> when the last write of the file was save(c)
    prevLogin,  \* << token >> when the process before this one was a login that succeeded
    http,       \* the HTTP response (or transport failure) a client call received
    result,     \* the Result a client call returned
    app,        \* the dashboard's App
    pc,         \* where the dashboard's run is: "none" | "fetch" | "loop" | "poll" | "done"
    trail,      \* the tab keys the dashboard handled last
    term,       \* the terminal: raw mode, alternate screen
    shown       \* what the last frame drawn shows: "none" | "Loading" | "Error" | "Ready"

clientVars == << http, result >>
dashVars == << app, pc, trail, term, shown >>

vars == << file, dirExists, cmd, env, flags, creds, authOk,
           requests, response, exit, output, saved, prevLogin,
           http, result, app, pc, trail, term, shown >>

---------------------------------------------------------------------------
(* Bounds *)

\* The most trailing slashes an api_url carries
MaxSlashes == 1

---------------------------------------------------------------------------
(* Values *)

None == << >>
Some(s) == << s >>
EmptyStr == << >>

Fields == {"api_url", "api_key", "auth_token", "tenant_id", "user_id", "environment_id"}
OptFields == Fields \ {"api_url"}

\* #[derive(Default)] struct Credentials
DefaultCreds ==
    [api_url |-> EmptyStr, api_key |-> None, auth_token |-> None,
     tenant_id |-> None, user_id |-> None, environment_id |-> None]

\* k slashes
Slashes(k) == [i \in 1..k |-> "/"]

\* Values a persisted record holds at the start
FileUrls == {EmptyStr} \cup {<<"f">> \o Slashes(k) : k \in 1..MaxSlashes}
FileKeys == {None, Some(EmptyStr), Some(<<"fk">>)}
FileTokens == {None, Some(EmptyStr), Some(<<"ft">>)}
FileTenants == {None, Some(<<"ften">>)}
FileUsers == {None, Some(<<"fusr">>)}
FileEnvIds == {None, Some(<<"fenv">>)}

AllCreds ==
    [api_url : FileUrls, api_key : FileKeys, auth_token : FileTokens,
     tenant_id : FileTenants, user_id : FileUsers, environment_id : FileEnvIds]

\* The records the file holds at the start: tenant and user come together
InitCreds == {c \in AllCreds : (c.tenant_id = None) <=> (c.user_id = None)}

\* Environment variables: None is unset; a variable may be set to "".
EnvUrls == {None, Some(EmptyStr), Some(<<"e">>)}
EnvKeys == {None, Some(EmptyStr), Some(<<"ek">>)}
EnvEnvIds == {None, Some(EmptyStr), Some(<<"eenv">>)}
Envs == [FLEXPRICE_API_URL : EnvUrls, FLEXPRICE_API_KEY : EnvKeys,
         FLEXPRICE_ENVIRONMENT_ID : EnvEnvIds]
\* The environments the commands are run in
CliEnvs == {e \in Envs : e.FLEXPRICE_API_URL # Some(EmptyStr)
                         /\ e.FLEXPRICE_ENVIRONMENT_ID # Some(EmptyStr)}
NoEnv == [FLEXPRICE_API_URL |-> None, FLEXPRICE_API_KEY |-> None,
          FLEXPRICE_ENVIRONMENT_ID |-> None]

\* Global command-line arguments (main.rs, struct Cli)
FlagUrls == {None, Some(<<"c">>)}
FlagKeys == {None, Some(<<"ck">>)}
Flags == [api_url : FlagUrls, api_key : FlagKeys]
NoFlags == [api_url |-> None, api_key |-> None]

---------------------------------------------------------------------------
(* The persisted file: absent, text that is no JSON, or a JSON object whose *)
(* fields are missing, null, a number or a string.                          *)

JMissing == <<"missing">>
JNull == <<"null">>
JNum == <<"number">>
JStr(s) == <<"string", s>>

IsJStr(v) == Len(v) = 2 /\ v[1] = "string"

EmptyObj == [f \in Fields |-> JMissing]

Absent == [kind |-> "absent", obj |-> EmptyObj]
Garbage == [kind |-> "garbage", obj |-> EmptyObj]
Json(o) == [kind |-> "json", obj |-> o]

\* SerOpt with an empty string written as null
SerOpt_EmptyAsNull(o) == IF o = None \/ o[1] = EmptyStr THEN JNull ELSE JStr(o[1])

\* serde_json::to_string_pretty(&Credentials): every field is written, a
\* String as a string, an Option as null or a string.
SerOpt(o) == IF o = None THEN JNull ELSE JStr(o[1])

to_string_pretty(c) ==
    [f \in Fields |-> IF f = "api_url" THEN JStr(c.api_url) ELSE SerOpt(c[f])]

\* serde_json::from_str::<Credentials>: #[serde(default)] on every field.
\* A String field takes a string only; an Option field takes null or a string.
StringFieldOk(v) == v = JMissing \/ IsJStr(v)
OptionFieldOk(v) == v = JMissing \/ v = JNull \/ IsJStr(v)

DeString(v) == IF v = JMissing THEN EmptyStr ELSE v[2]
DeOption(v) == IF IsJStr(v) THEN Some(v[2]) ELSE None

ParseOk(o) ==
    /\ StringFieldOk(o["api_url"])
    /\ \A f \in OptFields : OptionFieldOk(o[f])

from_str(o) ==
    [api_url |-> DeString(o["api_url"]),
     api_key |-> DeOption(o["api_key"]),
     auth_token |-> DeOption(o["auth_token"]),
     tenant_id |-> DeOption(o["tenant_id"]),
     user_id |-> DeOption(o["user_id"]),
     environment_id |-> DeOption(o["environment_id"])]

\* Result<Credentials>
Ok(c) == [ok |-> TRUE, err |-> "", val |-> c]
Err(e) == [ok |-> FALSE, err |-> e, val |-> DefaultCreds]

\* Credentials::load_from_file
load_from_file(fl) ==
    IF fl.kind = "absent" THEN Err("No credentials file found")
    ELSE IF fl.kind = "garbage" THEN Err("corrupt")
    ELSE IF ~ParseOk(fl.obj) THEN Err("corrupt")
    ELSE Ok(from_str(fl.obj))

\* Result::unwrap_or_default
unwrap_or_default(r) == IF r.ok THEN r.val ELSE DefaultCreds

\* One environment override of Credentials::load: applied when the variable
\* is set and not empty.
EnvSet(v) == v # None /\ v[1] # EmptyStr

\* load with the environment applied after the flags
load_EnvLast(fl, e, cli_api_url, cli_api_key) ==
    LET c0 == unwrap_or_default(load_from_file(fl))
        c1 == IF cli_api_url # None THEN [c0 EXCEPT !.api_url = cli_api_url[1]] ELSE c0
        c2 == IF cli_api_key # None THEN [c1 EXCEPT !.api_key = Some(cli_api_key[1])] ELSE c1
        c3 == IF EnvSet(e.FLEXPRICE_API_URL)
              THEN [c2 EXCEPT !.api_url = e.FLEXPRICE_API_URL[1]] ELSE c2
        c4 == IF EnvSet(e.FLEXPRICE_API_KEY)
              THEN [c3 EXCEPT !.api_key = Some(e.FLEXPRICE_API_KEY[1])] ELSE c3
        c5 == IF EnvSet(e.FLEXPRICE_ENVIRONMENT_ID)
              THEN [c4 EXCEPT !.environment_id = Some(e.FLEXPRICE_ENVIRONMENT_ID[1])]
              ELSE c4
    IN  c5

\* Credentials::load
load(fl, e, cli_api_url, cli_api_key) ==
    LET c0 == unwrap_or_default(load_from_file(fl))
        c1 == IF EnvSet(e.FLEXPRICE_API_URL)
              THEN [c0 EXCEPT !.api_url = e.FLEXPRICE_API_URL[1]] ELSE c0
        c2 == IF EnvSet(e.FLEXPRICE_API_KEY)
              THEN [c1 EXCEPT !.api_key = Some(e.FLEXPRICE_API_KEY[1])] ELSE c1
        c3 == IF EnvSet(e.FLEXPRICE_ENVIRONMENT_ID)
              THEN [c2 EXCEPT !.environment_id = Some(e.FLEXPRICE_ENVIRONMENT_ID[1])]
              ELSE c2
        c4 == IF cli_api_url # None THEN [c3 EXCEPT !.api_url = cli_api_url[1]] ELSE c3
        c5 == IF cli_api_key # None THEN [c4 EXCEPT !.api_key = Some(cli_api_key[1])] ELSE c4
    IN  c5

\* Credentials::save: the file afterwards
save(c) == Json(to_string_pretty(c))

\* is_authenticated looking at the key alone
is_authenticated_KeyOnly(c) == c.api_key # None

\* Credentials::is_authenticated
is_authenticated(c) == c.api_key # None \/ c.auth_token # None

\* Credentials::get_auth_header
get_auth_header(c) ==
    IF c.api_key # None THEN Some(<<"x-api-key", c.api_key[1]>>)
    ELSE IF c.auth_token # None
         THEN Some(<<"Authorization", <<"Bearer ">> \o c.auth_token[1]>>)
    ELSE None

---------------------------------------------------------------------------
(* The HTTP client (api/client.rs) *)

DefaultBaseUrl == <<"http://localhost:8080">>

\* str::trim_end_matches(ch): every trailing ch is removed
RECURSIVE trim_end_matches(_, _)
trim_end_matches(s, ch) ==
    IF s # << >> /\ s[Len(s)] = ch
    THEN trim_end_matches(SubSeq(s, 1, Len(s) - 1), ch)
    ELSE s

\* ApiClient::new
ApiClientNew(credentials) ==
    [base_url |-> IF credentials.api_url = EmptyStr
                  THEN DefaultBaseUrl
                  ELSE trim_end_matches(credentials.api_url, "/"),
     credentials |-> credentials]

\* ApiClient::url
url(client, path) == client.base_url \o <<path>>

\* ApiClient::apply_auth: the headers it adds, in order
apply_auth(client) ==
    LET h == get_auth_header(client.credentials)
        a == IF h # None THEN << h[1] >> ELSE << >>
        e == IF client.credentials.environment_id # None
             THEN << <<"x-environment-id", client.credentials.environment_id[1]>> >>
             ELSE << >>
    IN  a \o e

\* The request built by get, get_text, post, post_empty, put, delete, delete_empty
Request(client, method, path) ==
    [method |-> method, url |-> url(client, path), headers |-> apply_auth(client)]

\* The request built by ApiClient::health_check: no apply_auth
HealthRequest(client) ==
    [method |-> "GET", url |-> url(client, "/health"), headers |-> << >>]

\* What the network answers.  "decode_error" is a success status whose body
\* is not of the expected type.
NoResponse == [kind |-> "none", token |-> EmptyStr, tenant_id |-> EmptyStr, user_id |-> EmptyStr]
Plain(k) == [NoResponse EXCEPT !.kind = k]
NetOutcomes == {Plain("transport_error"), Plain("success"), Plain("non_success"),
                Plain("decode_error")}
HealthOutcomes == {Plain("transport_error"), Plain("success"), Plain("non_success")}

\* POST /v1/auth/login answers with an AuthResponse {token, user_id, tenant_id}
LoginTokens == {EmptyStr, <<"lt">>}
LoginOutcomes ==
    {Plain("transport_error"), Plain("non_success"), Plain("decode_error")}
    \cup {[kind |-> "success", token |-> t, tenant_id |-> <<"lten">>, user_id |-> <<"lusr">>]
          : t \in LoginTokens}

\* handle_response / handle_response_text / delete_empty / health_check: Ok or Err
CallOk(resp) == resp.kind = "success"

---------------------------------------------------------------------------
(* Responses and results of the client's operations (api/client.rs).  A    *)
(* text is kept with the JSON value it reads as (NotJson when it is no     *)
(* JSON); a JSON object is a function from its keys to values.             *)

NotJson == <<"none">>
JObj(f) == <<"object", f>>
JArr(s) == <<"array", s>>
IsJArr(v) == Len(v) = 2 /\ v[1] = "array"

\* serde_json::Value::get(key)
Get(v, k) ==
    IF Len(v) = 2 /\ v[1] = "object" /\ k \in DOMAIN v[2] THEN v[2][k] ELSE JMissing

Text(t, j) == [text |-> t, json |-> j]
EmptyText == Text(EmptyStr, NotJson)

\* serde_json::from_str::<Value>(text) answered Ok
IsJson(t) == t.json # NotJson

\* reqwest::StatusCode: as_u16 (text), canonical_reason (reason)
StatusCodes ==
    {[code |-> 200, text |-> "200", reason |-> "OK"],
     [code |-> 204, text |-> "204", reason |-> "No Content"],
     [code |-> 400, text |-> "400", reason |-> "Bad Request"],
     [code |-> 401, text |-> "401", reason |-> "Unauthorized"],
     [code |-> 403, text |-> "403", reason |-> "Forbidden"],
     [code |-> 404, text |-> "404", reason |-> "Not Found"],
     [code |-> 500, text |-> "500", reason |-> "Internal Server Error"]}

\* StatusCode::is_success: 200..=299
is_success(status) == status.code \in 200..299

\* Display for StatusCode: the code and the canonical reason
StatusDisplay(status) == <<status.text, " ", status.reason>>

\* The fields of a structured error body
ApiErrorFields == <<"error", "message", "hint">>

\* A JSON object written out on one line, its present members in the order
\* of keys
RECURSIVE Members(_, _, _)
Members(o, keys, first) ==
    IF keys = << >> THEN << >>
    ELSE LET k == Head(keys)
             v == o[k]
             m == IF v = JMissing THEN << >>
                  ELSE (IF first THEN << >> ELSE <<",">>)
                       \o <<"\"", k, "\":">>
                       \o (IF IsJStr(v) THEN <<"\"">> \o v[2] \o <<"\"">>
                           ELSE IF v = JNull THEN <<"null">>
                           ELSE <<"1">>)
         IN  m \o Members(o, Tail(keys), first /\ v = JMissing)

ObjectText(o, keys) ==
    LET present == {keys[i] : i \in {j \in DOMAIN keys : o[keys[j]] # JMissing}}
    IN  Text(<<"{">> \o Members(o, keys, TRUE) \o <<"}">>,
             JObj([k \in present |-> o[k]]))

\* Bodies that are a JSON object with error, message and hint members
ErrorObjects ==
    {[error |-> e, message |-> m, hint |-> h] :
        e \in {JMissing, JStr(<<"invalid customer">>)},
        m \in {JMissing, JStr(<<"bad input">>)},
        h \in {JMissing, JStr(<<"check the id">>)}}
    \cup {[error |-> JNull, message |-> JStr(<<"bad input">>), hint |-> JMissing],
          [error |-> JNum, message |-> JStr(<<"bad input">>), hint |-> JMissing]}

\* Bodies that are no JSON
PlainBodies == {EmptyText, Text(<<"upstream timed out">>, NotJson)}

ClientBodies == PlainBodies \cup {ObjectText(o, ApiErrorFields) : o \in ErrorObjects}

\* What a send() of the client ends with: a transport failure, or a response
\* with a status and a body; typed tells whether the body is of the type T
\* the caller asked for.
NoHttp ==
    [kind |-> "none", status |-> [code |-> 0, text |-> "", reason |-> ""],
     body |-> EmptyText, typed |-> FALSE]
TransportError == [NoHttp EXCEPT !.kind = "transport_error"]
HttpResponse(status, body, typed) ==
    [kind |-> "response", status |-> status, body |-> body, typed |-> typed]
HttpOutcomes ==
    {TransportError}
    \cup {r \in {HttpResponse(s, b, t) : s \in StatusCodes, b \in ClientBodies,
                                         t \in BOOLEAN} : r.typed => IsJson(r.body)}

\* anyhow::Result: Ok(val), or an error with its message and what it wraps
NoResult == [ok |-> FALSE, val |-> EmptyText, msg |-> EmptyStr, cause |-> "none"]
Returned(v) == [ok |-> TRUE, val |-> v, msg |-> EmptyStr, cause |-> "none"]
Failed(m, c) == [ok |-> FALSE, val |-> EmptyText, msg |-> m, cause |-> c]

\* serde_json::from_str::<ApiError>: an object whose error, message and hint
\* are each left out, null or a string
ApiErrorOk(body) ==
    /\ Len(body.json) = 2 /\ body.json[1] = "object"
    /\ \A i \in DOMAIN ApiErrorFields : OptionFieldOk(Get(body.json, ApiErrorFields[i]))

ApiErrorOf(body) ==
    [error |-> DeOption(Get(body.json, "error")),
     message |-> DeOption(Get(body.json, "message")),
     hint |-> DeOption(Get(body.json, "hint"))]

\* The message handle_response builds from a structured error body (" - "
\* stands for the dash the source puts before the hint)
StructuredMessage(status, api_err) ==
    LET msg == IF api_err.error # None THEN api_err.error[1]
               ELSE IF api_err.message # None THEN api_err.message[1]
               ELSE <<"Unknown error">>
        head == <<status.text, " (", status.reason, "): ">> \o msg
    IN  IF api_err.hint # None THEN head \o <<" - ">> \o api_err.hint[1] ELSE head

\* The message handle_response builds from any other body (the source quotes
\* the command with backticks)
FallbackMessage(status, body) ==
    IF status.code = 401
    THEN <<"Authentication failed. Run 'flexprice auth login' or check your API key.">>
    ELSE IF status.code = 403
    THEN <<"Permission denied. Your credentials may not have access to this resource.">>
    ELSE IF status.code = 404
    THEN <<"Resource not found. Verify the ID is correct.">>
    ELSE StatusDisplay(status) \o <<": ">> \o body.text

\* handle_response with the guidance left out
handle_response_NoGuidance(resp) ==
    IF is_success(resp.status)
    THEN IF resp.typed THEN Returned(resp.body)
         ELSE Failed(<<"Failed to parse resp body">>, "decode")
    ELSE Failed(IF ApiErrorOk(resp.body)
                THEN StructuredMessage(resp.status, ApiErrorOf(resp.body))
                ELSE StatusDisplay(resp.status) \o <<": ">> \o resp.body.text,
                "none")

\* ApiClient::handle_response
handle_response(resp) ==
    IF is_success(resp.status)
    THEN IF resp.typed THEN Returned(resp.body)
         ELSE Failed(<<"Failed to parse resp body">>, "decode")
    ELSE Failed(IF ApiErrorOk(resp.body)
                THEN StructuredMessage(resp.status, ApiErrorOf(resp.body))
                ELSE FallbackMessage(resp.status, resp.body),
                "none")

\* ApiClient::handle_response_text
handle_response_text(resp) ==
    IF is_success(resp.status)
    THEN Returned(resp.body)
    ELSE Failed(StatusDisplay(resp.status) \o <<": ">> \o resp.body.text, "none")

\* The operations of the client that take a path
TypedOps == {"get", "post", "post_empty", "put", "delete"}
ClientOps == TypedOps \cup {"get_text", "delete_empty"}

Method(op) ==
    CASE op \in {"get", "get_text"} -> "GET"
      [] op \in {"post", "post_empty"} -> "POST"
      [] op = "put" -> "PUT"
      [] op \in {"delete", "delete_empty"} -> "DELETE"

\* The requests an operation sends when it sends its request twice
Sent_Twice(client, op, path) ==
    LET req == IF op = "health_check" THEN HealthRequest(client)
               ELSE Request(client, Method(op), path)
    IN  << req, req >>

\* The requests an operation sends: the request is built and req.send() is
\* called once
Sent(client, op, path) ==
    << IF op = "health_check" THEN HealthRequest(client)
       ELSE Request(client, Method(op), path) >>

\* health_check answering Ok to every response
health_check_AnyStatus(net) ==
    IF net.kind = "transport_error"
    THEN Failed(<<"Cannot reach FlexPrice API">>, "transport")
    ELSE Returned(EmptyText)

\* ApiClient::health_check, once the request is sent
health_check(net) ==
    IF net.kind = "transport_error"
    THEN Failed(<<"Cannot reach FlexPrice API">>, "transport")
    ELSE IF is_success(net.status) THEN Returned(EmptyText)
    ELSE Failed(<<"API returned status ">> \o StatusDisplay(net.status), "none")

\* get, get_text, post, post_empty, put, delete, delete_empty, once the
\* request is sent
Outcome(op, net) ==
    IF net.kind = "transport_error" THEN Failed(<<"Request failed">>, "transport")
    ELSE IF op \in TypedOps THEN handle_response(net)
    ELSE IF op = "get_text" THEN handle_response_text(net)
    ELSE IF is_success(net.status) THEN Returned(EmptyText)
    ELSE Failed(StatusDisplay(net.status) \o <<": ">> \o net.body.text, "none")

---------------------------------------------------------------------------
(* The dashboard (tui/dashboard.rs) *)

TABS == <<"Customers", "Plans", "Subscriptions", "Invoices", "Meters", "Wallets",
          "Features">>
TAB_ENDPOINTS == <<"/v1/customers", "/v1/plans", "/v1/subscriptions", "/v1/invoices",
                   "/v1/meters", "/v1/wallets", "/v1/features">>

\* serde_json::to_string_pretty(&Value): the text is not spelled out; it reads
\* back as the value it was printed from
PrettyText(v) == Text(<<"(pretty)">>, v)

\* The first of the keys the item has, read as a string, or the default
FirstAsStr(item, keys, default) ==
    LET has == {i \in DOMAIN keys : Get(item, keys[i]) # JMissing}
    IN  IF has = {} THEN default
        ELSE LET first == CHOOSE i \in has : \A j \in has : i <= j
                 v == Get(item, keys[first])
             IN  IF IsJStr(v) THEN v[2] ELSE default

\* The line load_data shows for one item
ItemLine(item) ==
    LET id == FirstAsStr(item, <<"id">>, <<"?">>)
        name == FirstAsStr(item, <<"name", "email", "event_name">>, <<"-">>)
        status == FirstAsStr(item, <<"status", "subscription_status", "invoice_status",
                                     "wallet_status">>, EmptyStr)
    IN  IF status = EmptyStr
        THEN id \o <<"  ">> \o name
        ELSE id \o <<"  ">> \o name \o <<"  [">> \o status \o <<"]">>

\* struct App as App::new builds it (the client is ApiClient::new(creds);
\* sparkline_data is fixed); selected is list_state.selected()
AppNew ==
    [active_tab |-> 0, selected |-> Some(0), data_items |-> << >>, detail_text |-> EmptyText,
     loading |-> FALSE, error |-> None, should_quit |-> FALSE]

\* The terminal before raw mode and the alternate screen; entered tells
\* whether this run has enabled raw mode and entered the alternate screen
Cooked == [raw |-> FALSE, alt |-> FALSE, entered |-> FALSE]

\* App::next_tab with nothing cleared
next_tab_NoClear(a) ==
    [a EXCEPT !.active_tab = (a.active_tab + 1) % Len(TABS), !.selected = Some(0)]

\* App::next_tab
next_tab(a) ==
    [a EXCEPT !.active_tab = (a.active_tab + 1) % Len(TABS),
              !.data_items = << >>,
              !.detail_text = EmptyText,
              !.error = None,
              !.selected = Some(0)]

\* App::prev_tab stopping at the first tab
prev_tab_Stops(a) ==
    [a EXCEPT !.active_tab = IF a.active_tab = 0 THEN 0 ELSE a.active_tab - 1,
              !.data_items = << >>,
              !.detail_text = EmptyText,
              !.error = None,
              !.selected = Some(0)]

\* App::prev_tab
prev_tab(a) ==
    [a EXCEPT !.active_tab = IF a.active_tab = 0 THEN Len(TABS) - 1 ELSE a.active_tab - 1,
              !.data_items = << >>,
              !.detail_text = EmptyText,
              !.error = None,
              !.selected = Some(0)]

\* list_state.selected().unwrap_or(0)
Selected(a) == IF a.selected = None THEN 0 ELSE a.selected[1]

\* App::next_item stopping at the last item
next_item_NoWrap(a) ==
    IF a.data_items = << >> THEN a
    ELSE [a EXCEPT !.selected = Some(IF Selected(a) = Len(a.data_items) - 1 THEN Selected(a)
                                     ELSE Selected(a) + 1)]

\* App::next_item
next_item(a) ==
    IF a.data_items = << >> THEN a
    ELSE [a EXCEPT !.selected = Some((Selected(a) + 1) % Len(a.data_items))]

\* App::prev_item going past the end from the first item
prev_item_PastEnd(a) ==
    IF a.data_items = << >> THEN a
    ELSE [a EXCEPT !.selected = Some(IF Selected(a) = 0 THEN Len(a.data_items)
                                     ELSE Selected(a) - 1)]

\* App::prev_item
prev_item(a) ==
    IF a.data_items = << >> THEN a
    ELSE [a EXCEPT !.selected = Some(IF Selected(a) = 0 THEN Len(a.data_items) - 1
                                     ELSE Selected(a) - 1)]

\* update_detail leaving the detail as it is
update_detail_Never(a) == a

\* update_detail
update_detail(a) ==
    LET json == a.detail_text.json
        items == Get(json, "items")
    IN  IF IsJson(a.detail_text) /\ IsJArr(items) /\ Selected(a) < Len(items[2])
        THEN [a EXCEPT !.detail_text = PrettyText(items[2][Selected(a) + 1])]
        ELSE a

\* load_data up to the await of get_text
load_data_begin(a) == [a EXCEPT !.loading = TRUE, !.error = None]

\* The match on what get_text returned, with an Err arm that sets the error
\* only
load_data_match_KeepsItems(a, res) ==
    IF res.ok
    THEN LET body == res.val
             items == Get(body.json, "items")
         IN  IF IsJson(body)
             THEN IF IsJArr(items)
                  THEN [a EXCEPT !.data_items = [i \in DOMAIN items[2] |-> ItemLine(items[2][i])],
                                 !.detail_text = PrettyText(body.json)]
                  ELSE [a EXCEPT !.data_items = << <<"(no items)">> >>,
                                 !.detail_text = PrettyText(body.json)]
             ELSE [a EXCEPT !.data_items = << <<"(raw response)">> >>,
                            !.detail_text = body]
    ELSE [a EXCEPT !.error = Some(res.msg)]

\* The match on what get_text returned, with the two placeholders exchanged
load_data_match_Swapped(a, res) ==
    IF res.ok
    THEN LET body == res.val
             items == Get(body.json, "items")
         IN  IF IsJson(body)
             THEN IF IsJArr(items)
                  THEN [a EXCEPT !.data_items = [i \in DOMAIN items[2] |-> ItemLine(items[2][i])],
                                 !.detail_text = PrettyText(body.json)]
                  ELSE [a EXCEPT !.data_items = << <<"(raw response)">> >>,
                                 !.detail_text = PrettyText(body.json)]
             ELSE [a EXCEPT !.data_items = << <<"(no items)">> >>,
                            !.detail_text = body]
    ELSE [a EXCEPT !.error = Some(res.msg),
                   !.data_items = << >>,
                   !.detail_text = EmptyText]

\* The match on what get_text returned
load_data_match(a, res) ==
    IF res.ok
    THEN LET body == res.val
             items == Get(body.json, "items")
         IN  IF IsJson(body)
             THEN IF IsJArr(items)
                  THEN [a EXCEPT !.data_items = [i \in DOMAIN items[2] |-> ItemLine(items[2][i])],
                                 !.detail_text = PrettyText(body.json)]
                  ELSE [a EXCEPT !.data_items = << <<"(no items)">> >>,
                                 !.detail_text = PrettyText(body.json)]
             ELSE [a EXCEPT !.data_items = << <<"(raw response)">> >>,
                            !.detail_text = body]
    ELSE [a EXCEPT !.error = Some(res.msg),
                   !.data_items = << >>,
                   !.detail_text = EmptyText]

\* load_data from the await on, the selection left where it was
load_data_end_KeepsSelection(a, res) ==
    update_detail([load_data_match(a, res) EXCEPT !.loading = FALSE])

\* load_data from the await on
load_data_end(a, res) ==
    update_detail([load_data_match(a, res) EXCEPT !.loading = FALSE, !.selected = Some(0)])

\* The tab keys handled last: the key, the tab it was pressed on, the same
\* for the tab key before it, and the length and first tab of the run of
\* equal tab keys that the last one ends
NoTrail == [key |-> "none", from |-> 0, key2 |-> "none", from2 |-> 0, run |-> 0, start |-> 0]

TabKey(t, k, tab) ==
    LET continues == t.key = k /\ t.run < Len(TABS)
    IN  [key |-> k, from |-> tab, key2 |-> t.key, from2 |-> t.from,
         run |-> IF continues THEN t.run + 1 ELSE 1,
         start |-> IF continues THEN t.start ELSE tab]

\* The payloads the server answers the dashboard with
DashPayloads ==
    LET Item1 == JObj([id |-> JStr(<<"c1">>), name |-> JStr(<<"Ann">>),
                       status |-> JStr(<<"active">>)])
        Item2 == JObj([id |-> JStr(<<"c2">>), email |-> JStr(<<"b@x">>)])
        Item3 == JObj([name |-> JNull, email |-> JStr(<<"c@x">>),
                       subscription_status |-> JStr(<<"paused">>)])
        Item4 == JObj([id |-> JStr(<<"m1">>), event_name |-> JStr(<<"api_call">>),
                       wallet_status |-> JStr(<<"frozen">>)])
        Item5 == JObj([id |-> JStr(<<"g1">>), items |-> JArr(<< Item2, Item4 >>)])
    IN  {JObj([items |-> JArr(<< Item1, Item2, Item3 >>)]),
         JObj([items |-> JArr(<< Item5, Item4 >>)]),
         JObj([items |-> JArr(<< >>)]),
         JObj([items |-> JStr(<<"none">>)]),
         JObj([total |-> JNum]),
         JArr(<< Item1 >>)}

\* What get_text ends with in a session: a transport failure, a success with
\* a payload or with text that is no JSON, a 401 or a 500 with a body
DashOutcomes ==
    {TransportError}
    \cup {HttpResponse(s, b, FALSE) :
             s \in {t \in StatusCodes : t.code = 200},
             b \in {PrettyText(v) : v \in DashPayloads} \cup PlainBodies}
    \cup {HttpResponse(s, b, FALSE) :
             s \in {t \in StatusCodes : t.code \in {401, 500}},
             b \in {c \in ClientBodies :
                       \/ ~IsJson(c)
                       \/ /\ Get(c.json, "error") # JMissing
                          /\ Get(c.json, "hint") # JMissing
                          /\ Get(c.json, "message") = JMissing}}

\* The credentials a session runs with
DashCreds ==
    {[DefaultCreds EXCEPT !.api_url = <<"d">>, !.api_key = Some(<<"dk">>)],
     [DefaultCreds EXCEPT !.auth_token = Some(<<"dt">>)]}

---------------------------------------------------------------------------
(* Initial states *)

\* Records written by hand: fields left out, a null api_url, a number
HandEdited ==
    {EmptyObj,
     [EmptyObj EXCEPT !["api_key"] = JStr(<<"fk">>)],
     [EmptyObj EXCEPT !["auth_token"] = JStr(<<"ft">>), !["api_key"] = JNull],
     [EmptyObj EXCEPT !["api_url"] = JNull, !["api_key"] = JStr(<<"fk">>)],
     [EmptyObj EXCEPT !["tenant_id"] = JStr(<<"ften">>)],
     [EmptyObj EXCEPT !["auth_token"] = JNum]}

InitFiles ==
    {Absent, Garbage} \cup {save(c) : c \in InitCreds} \cup {Json(o) : o \in HandEdited}

Init ==
    /\ file \in InitFiles
    /\ dirExists \in BOOLEAN
    /\ file.kind # "absent" => dirExists
    /\ cmd = "none"
    /\ env = NoEnv
    /\ flags = NoFlags
    /\ creds = DefaultCreds
    /\ authOk = FALSE
    /\ requests = << >>
    /\ response = NoResponse
    /\ exit = "none"
    /\ output = "none"
    /\ saved = None
    /\ prevLogin = None
    /\ http = NoHttp
    /\ result = NoResult
    /\ app = AppNew
    /\ pc = "none"
    /\ trail = NoTrail
    /\ term = Cooked
    /\ shown = "none"

---------------------------------------------------------------------------
(* One-shot commands (main.rs).  Every invocation parses the global flags  *)
(* and runs in some environment.  exit is "none" while no process runs,    *)
(* "running" in a dashboard session, "ok" or "fail" once main has ended.   *)

Idle == exit = "none"

Begin(c, e, fl) ==
    /\ cmd' = c
    /\ env' = e
    /\ flags' = fl
    /\ UNCHANGED << clientVars, dashVars >>

\* require_auth without the check
require_auth_NoCheck(fl, e) == [creds |-> load(fl, e, None, None), ok |-> TRUE]

\* cli::auth::require_auth: the credentials it loads, and whether it returns
\* them (ok) or warns and ends the process with exit(1)
require_auth(fl, e) ==
    LET c == load(fl, e, None, None)
    IN  [creds |-> c, ok |-> is_authenticated(c)]

\* What the handlers of the resource commands call after require_auth
ResourceCalls ==
    {[method |-> "GET", path |-> "/v1/customers", needsInput |-> FALSE],
     [method |-> "POST", path |-> "/v1/customers", needsInput |-> TRUE]}

\* require_auth()?; ApiClient::new(creds)?; one client call; print
Authed(call, inputOk, net) ==
    LET r == require_auth(file, env')
        c == r.creds
    IN
    /\ creds' = c
    /\ authOk' = r.ok
    /\ IF ~r.ok
       THEN /\ requests' = << >>
            /\ response' = NoResponse
            /\ exit' = "fail"
            /\ output' = "not_authenticated"
       ELSE IF call.needsInput /\ ~inputOk
       THEN /\ requests' = << >>
            /\ response' = NoResponse
            /\ exit' = "fail"
            /\ output' = "error"
       ELSE /\ requests' = << Request(ApiClientNew(c), call.method, call.path) >>
            /\ response' = net
            /\ exit' = IF CallOk(net) THEN "ok" ELSE "fail"
            /\ output' = IF CallOk(net) THEN "ok" ELSE "error"
    /\ UNCHANGED << file, dirExists, saved, prevLogin >>

\* cli::customers::handle and the other eight resource handlers
ResourceCmd ==
    /\ Idle
    /\ \E e \in CliEnvs, fl \in Flags, call \in ResourceCalls, inputOk \in BOOLEAN,
       net \in HealthOutcomes \cup {Plain("decode_error")} :
        /\ Begin("resource", e, fl)
        /\ Authed(call, inputOk, net)

\* cli::auth::whoami
Whoami ==
    /\ Idle
    /\ \E e \in CliEnvs, fl \in Flags, net \in NetOutcomes :
        /\ Begin("whoami", e, fl)
        /\ Authed([method |-> "GET", path |-> "/v1/users/me", needsInput |-> FALSE],
                  TRUE, net)

\* handle_dashboard, up to the initial load_data of tui::dashboard::run: the
\* fetch's failure is kept in the session, which goes on
Dashboard ==
    /\ Idle
    /\ \E e \in CliEnvs, fl \in Flags, net \in HealthOutcomes :
        /\ Begin("dashboard", e, fl)
        /\ LET r == require_auth(file, e)
               c == r.creds
           IN
           /\ creds' = c
           /\ authOk' = r.ok
           /\ IF ~r.ok
              THEN /\ requests' = << >>
                   /\ response' = NoResponse
                   /\ exit' = "fail"
                   /\ output' = "not_authenticated"
              ELSE /\ requests' = << Request(ApiClientNew(c), "GET", "/v1/customers") >>
                   /\ response' = net
                   /\ exit' = "running"
                   /\ output' = IF CallOk(net) THEN "ok" ELSE "error"
        /\ UNCHANGED << file, dirExists, saved, prevLogin >>

\* The dashboard's quit key: the loop ends and run returns Ok
DashboardQuit ==
    /\ exit = "running"
    /\ exit' = "ok"
    /\ UNCHANGED << file, dirExists, cmd, env, flags, creds, authOk,
                    requests, response, output, saved, prevLogin >>
    /\ UNCHANGED << clientVars, dashVars >>

\* handle_config saving what it resolved
Config_Saves ==
    /\ Idle
    /\ \E e \in CliEnvs, fl \in Flags :
        /\ Begin("config", e, fl)
        /\ creds' = load(file, e, None, None)
        /\ authOk' = FALSE
        /\ requests' = << >>
        /\ response' = NoResponse
        /\ exit' = "ok"
        /\ output' = "config"
        /\ file' = save(creds')
        /\ UNCHANGED << dirExists, saved, prevLogin >>

\* handle_config
Config ==
    /\ Idle
    /\ \E e \in CliEnvs, fl \in Flags :
        /\ Begin("config", e, fl)
        /\ creds' = load(file, e, None, None)
        /\ authOk' = FALSE
        /\ requests' = << >>
        /\ response' = NoResponse
        /\ exit' = "ok"
        /\ output' = "config"
        /\ UNCHANGED << file, dirExists, saved, prevLogin >>

\* cli::auth::status
Status ==
    /\ Idle
    /\ \E e \in CliEnvs, fl \in Flags, net \in HealthOutcomes :
        /\ Begin("status", e, fl)
        /\ LET r == load_from_file(file) IN
           /\ creds' = r.val
           /\ authOk' = FALSE
           /\ IF r.ok
              THEN /\ requests' = << HealthRequest(ApiClientNew(r.val)) >>
                   /\ response' = net
                   /\ output' = IF CallOk(net) THEN "connection_ok" ELSE "unreachable"
              ELSE /\ requests' = << >>
                   /\ response' = NoResponse
                   /\ output' = "not_authenticated"
           /\ exit' = "ok"
        /\ UNCHANGED << file, dirExists, saved, prevLogin >>

\* LoginCreds with the tenant and the user taken from each other's field
LoginCreds_Swapped(api_url, resp) ==
    [api_url |-> api_url,
     auth_token |-> Some(resp.token),
     tenant_id |-> Some(resp.user_id),
     user_id |-> Some(resp.tenant_id),
     api_key |-> None,
     environment_id |-> None]

\* cli::auth::login: the record it stores after the answer resp
LoginCreds(api_url, resp) ==
    [api_url |-> api_url,
     auth_token |-> Some(resp.token),
     tenant_id |-> Some(resp.tenant_id),
     user_id |-> Some(resp.user_id),
     api_key |-> None,
     environment_id |-> None]

\* cli::auth::login
LoginUrls == {<<"l">> \o Slashes(k) : k \in 0..MaxSlashes}

Login ==
    /\ Idle
    /\ \E e \in CliEnvs, fl \in Flags, api_url \in LoginUrls, promptOk \in BOOLEAN,
       net \in LoginOutcomes :
        /\ Begin("login", e, fl)
        /\ authOk' = FALSE
        /\ UNCHANGED prevLogin
        /\ IF ~promptOk
           THEN /\ creds' = DefaultCreds
                /\ requests' = << >>
                /\ response' = NoResponse
                /\ exit' = "fail"
                /\ output' = "error"
                /\ UNCHANGED << file, dirExists, saved >>
           ELSE LET c0 == [DefaultCreds EXCEPT !.api_url = api_url]
                    c1 == LoginCreds(api_url, net)
                IN  /\ creds' = c0
                    /\ requests' = << Request(ApiClientNew(c0), "POST", "/v1/auth/login") >>
                    /\ response' = net
                    /\ IF CallOk(net)
                       THEN /\ file' = save(c1)
                            /\ dirExists' = TRUE
                            /\ saved' = Some(c1)
                            /\ exit' = "ok"
                            /\ output' = "authenticated"
                       ELSE /\ exit' = "fail"
                            /\ output' = "error"
                            /\ UNCHANGED << file, dirExists, saved >>

\* cli::auth::set_api_key
NewKeys == {EmptyStr, <<"nk">>}
SetKeyUrls == {DefaultBaseUrl, <<"s">>}

SetApiKey ==
    /\ Idle
    /\ \E e \in CliEnvs, fl \in Flags, key \in NewKeys, api_url \in SetKeyUrls,
       net \in HealthOutcomes :
        /\ Begin("set_api_key", e, fl)
        /\ LET c == [DefaultCreds EXCEPT !.api_url = api_url, !.api_key = Some(key)] IN
           /\ creds' = c
           /\ authOk' = FALSE
           /\ UNCHANGED prevLogin
           /\ requests' = << HealthRequest(ApiClientNew(c)) >>
           /\ response' = net
           /\ IF CallOk(net)
              THEN /\ file' = save(c)
                   /\ dirExists' = TRUE
                   /\ saved' = Some(c)
                   /\ exit' = "ok"
                   /\ output' = "validated_and_saved"
              ELSE /\ exit' = "fail"
                   /\ output' = "error"
                   /\ UNCHANGED << file, dirExists, saved >>

\* cli::auth::logout, with Credentials::delete
Logout ==
    /\ Idle
    /\ \E e \in CliEnvs, fl \in Flags :
        /\ Begin("logout", e, fl)
        /\ file' = Absent
        /\ saved' = None
        /\ creds' = DefaultCreds
        /\ authOk' = FALSE
        /\ requests' = << >>
        /\ response' = NoResponse
        /\ exit' = "ok"
        /\ output' = "logged_out"
        /\ UNCHANGED << dirExists, prevLogin >>

\* The process has ended: what it held is gone, the file stays
Exit ==
    /\ exit \in {"ok", "fail"}
    /\ cmd' = "none"
    /\ env' = NoEnv
    /\ flags' = NoFlags
    /\ creds' = DefaultCreds
    /\ authOk' = FALSE
    /\ requests' = << >>
    /\ response' = NoResponse
    /\ exit' = "none"
    /\ output' = "none"
    /\ prevLogin' = IF cmd = "login" /\ exit = "ok" THEN Some(response.token) ELSE None
    /\ http' = NoHttp
    /\ result' = NoResult
    /\ UNCHANGED << file, dirExists, saved >>
    /\ UNCHANGED dashVars

Next ==
    \/ ResourceCmd
    \/ Whoami
    \/ Dashboard
    \/ DashboardQuit
    \/ Config
    \/ Status
    \/ Login
    \/ SetApiKey
    \/ Logout
    \/ Exit

Spec == Init /\ [][Next]_vars

---------------------------------------------------------------------------
(* The credential store called directly (config/store.rs), with any flags *)

StoreFlagUrls == {None, Some(EmptyStr), Some(<<"c">>)}
StoreFlagKeys == {None, Some(EmptyStr), Some(<<"ck">>)}

Call(c) ==
    /\ cmd' = c
    /\ exit' = "ok"
    /\ UNCHANGED << authOk, requests, response, prevLogin >>
    /\ UNCHANGED << clientVars, dashVars >>

\* Credentials::load(cli_api_url, cli_api_key)
Resolve ==
    /\ Idle
    /\ \E e \in Envs, cli_api_url \in StoreFlagUrls, cli_api_key \in StoreFlagKeys :
        /\ Call("load")
        /\ env' = e
        /\ flags' = [api_url |-> cli_api_url, api_key |-> cli_api_key]
        /\ creds' = load(file, e, cli_api_url, cli_api_key)
        /\ output' = "ok"
        /\ UNCHANGED << file, dirExists, saved >>

\* Credentials::save
Persist ==
    /\ Idle
    /\ \E c \in AllCreds :
        /\ Call("save")
        /\ file' = save(c)
        /\ dirExists' = TRUE
        /\ saved' = Some(c)
        /\ creds' = c
        /\ output' = "ok"
        /\ UNCHANGED << env, flags >>

\* Credentials::load_from_file
LoadPersisted ==
    /\ Idle
    /\ Call("load_from_file")
    /\ LET r == load_from_file(file) IN
       /\ creds' = r.val
       /\ output' = IF r.ok THEN "ok" ELSE r.err
    /\ UNCHANGED << file, dirExists, saved, env, flags >>

\* Credentials::delete
Erase ==
    /\ Idle
    /\ Call("delete")
    /\ file' = Absent
    /\ saved' = None
    /\ creds' = DefaultCreds
    /\ output' = "ok"
    /\ UNCHANGED << dirExists, env, flags >>

NextStore ==
    \/ Resolve
    \/ Persist
    \/ LoadPersisted
    \/ Erase
    \/ Exit

SpecStore == Init /\ [][NextStore]_vars

\* The commands, and Credentials::load called with any flags
NextAll ==
    \/ Next
    \/ Resolve

SpecAll == Init /\ [][NextAll]_vars

---------------------------------------------------------------------------
(* The client's operations called directly (api/client.rs) *)

\* The api_url of the credentials a client is built with: empty, only
\* slashes, or a URL with or without trailing slashes
ClientCreds ==
    LET urls == {EmptyStr}
                \cup {Slashes(k) : k \in 1..MaxSlashes}
                \cup {<<"h">> \o Slashes(k) : k \in 0..MaxSlashes}
                \cup {<<"h", "/", "p">> \o Slashes(k) : k \in 0..MaxSlashes}
    IN  {[DefaultCreds EXCEPT !.api_url = u, !.api_key = k, !.auth_token = t] :
            u \in urls, k \in {None, Some(<<"kk">>)}, t \in {None, Some(<<"tt">>)}}

\* ApiClient::new(c), then one operation: the request is built and sent, and
\* what send() ends with is handled
ClientCall(op) ==
    /\ Idle
    /\ \E c \in ClientCreds, path \in {"/v1/customers"}, net \in HttpOutcomes :
        LET client == ApiClientNew(c)
            r == IF op = "health_check" THEN health_check(net) ELSE Outcome(op, net)
        IN  /\ cmd' = op
            /\ creds' = c
            /\ requests' = Sent(client, op, path)
            /\ http' = net
            /\ result' = r
            /\ exit' = IF r.ok THEN "ok" ELSE "fail"
            /\ UNCHANGED << file, dirExists, env, flags, authOk, response, output,
                            saved, prevLogin >>
            /\ UNCHANGED dashVars

CallGet == ClientCall("get")
CallGetText == ClientCall("get_text")
CallPost == ClientCall("post")
CallPostEmpty == ClientCall("post_empty")
CallPut == ClientCall("put")
CallDelete == ClientCall("delete")
CallDeleteEmpty == ClientCall("delete_empty")
CallHealthCheck == ClientCall("health_check")

\* No credentials file: the client and the session are given their credentials
InitNoFile == Init /\ file = Absent /\ dirExists = FALSE

NextClient ==
    \/ CallGet
    \/ CallGetText
    \/ CallPost
    \/ CallPostEmpty
    \/ CallPut
    \/ CallDelete
    \/ CallDeleteEmpty
    \/ CallHealthCheck
    \/ Exit

SpecClient == InitNoFile /\ [][NextClient]_vars

---------------------------------------------------------------------------
(* A dashboard session (tui/dashboard.rs, run).  pc is "fetch" while       *)
(* load_data awaits get_text, "loop" at the top of the event loop, "poll"  *)
(* once the frame is drawn and the loop waits for a key, "done" once run   *)
(* has returned.  The calls on the terminal may fail.                      *)

\* ui / render_body: the resource list shows the loading indicator, the
\* error or the list
ui(a) ==
    IF a.loading THEN "Loading"
    ELSE IF a.error # None THEN "Error"
    ELSE "Ready"

\* render_body: what a frame does to the App.  The list is rendered with
\* render_stateful_widget(list, area, &mut app.list_state); where its area
\* has room, the widget drops the selection of a list without items and
\* moves a selection past the end to the last item
render_body(a, room) ==
    IF ui(a) = "Ready" /\ room
    THEN IF a.data_items = << >> THEN [a EXCEPT !.selected = None]
         ELSE IF Selected(a) >= Len(a.data_items)
              THEN [a EXCEPT !.selected = Some(Len(a.data_items) - 1)]
              ELSE a
    ELSE a

\* load_data up to the await: the request get_text sends for the active tab
Fetch(c, a) ==
    /\ app' = load_data_begin(a)
    /\ requests' = Sent(ApiClientNew(c), "get_text", TAB_ENDPOINTS[a.active_tab + 1])
    /\ http' = NoHttp
    /\ result' = NoResult
    /\ pc' = "fetch"

Session ==
    UNCHANGED << file, dirExists, env, flags, authOk, response, output, saved, prevLogin >>

\* A call of run returns its error through `?`: run returns Err
ReturnErr ==
    /\ pc' = "done"
    /\ exit' = "fail"
    /\ requests' = << >>
    /\ http' = NoHttp
    /\ result' = NoResult

\* run up to the await of the first load_data: enable_raw_mode,
\* EnterAlternateScreen, Terminal::new, App::new(creds), load_data; failed
\* names the first of the calls that fails
Launch ==
    /\ Idle
    /\ pc \in {"none", "done"}
    /\ \E c \in DashCreds,
          failed \in {"enable_raw_mode", "EnterAlternateScreen", "Terminal::new",
                      "App::new", "none"} :
        /\ cmd' = "launch"
        /\ creds' = c
        /\ trail' = NoTrail
        /\ shown' = "none"
        /\ term' = [raw |-> failed # "enable_raw_mode",
                    alt |-> failed \notin {"enable_raw_mode", "EnterAlternateScreen"},
                    entered |-> failed \notin {"enable_raw_mode", "EnterAlternateScreen"}]
        /\ IF failed = "none"
           THEN /\ exit' = "running"
                /\ Fetch(c, AppNew)
           ELSE /\ app' = AppNew
                /\ ReturnErr
        /\ Session

\* load_data from the await on: get_text has returned
FetchDone ==
    /\ pc = "fetch"
    /\ \E net \in DashOutcomes :
        /\ http' = net
        /\ result' = Outcome("get_text", net)
        /\ app' = load_data_end(app, result')
        /\ pc' = "loop"
        /\ UNCHANGED << cmd, creds, requests, exit, trail, term, shown >>
        /\ Session

\* terminal.draw(|f| ui(f, &mut app))?; room tells whether the terminal
\* leaves the list an area to draw in
Draw ==
    /\ pc = "loop"
    /\ \E ok \in BOOLEAN, room \in BOOLEAN :
        IF ok
        THEN /\ shown' = ui(app)
             /\ app' = render_body(app, room)
             /\ pc' = "poll"
             /\ UNCHANGED << requests, http, result, exit >>
        ELSE /\ ReturnErr
             /\ UNCHANGED << shown, app >>
    /\ UNCHANGED << cmd, creds, trail, term >>
    /\ Session

\* event::poll(100ms)? / event::read()?: no key, a key that is not bound or
\* not a press (ok), or a failure
Poll ==
    /\ pc = "poll"
    /\ \E ok \in BOOLEAN :
        IF ok
        THEN /\ pc' = "loop"
             /\ UNCHANGED << requests, http, result, exit >>
        ELSE ReturnErr
    /\ cmd' = "no_key"
    /\ UNCHANGED << creds, app, trail, term, shown >>
    /\ Session

\* Tab or 'l'
KeyNextTab ==
    /\ pc = "poll"
    /\ cmd' = "next_tab"
    /\ trail' = TabKey(trail, "next", app.active_tab)
    /\ Fetch(creds, next_tab(app))
    /\ UNCHANGED << creds, exit, term, shown >>
    /\ Session

\* BackTab or 'h'
KeyPrevTab ==
    /\ pc = "poll"
    /\ cmd' = "prev_tab"
    /\ trail' = TabKey(trail, "prev", app.active_tab)
    /\ Fetch(creds, prev_tab(app))
    /\ UNCHANGED << creds, exit, term, shown >>
    /\ Session

\* 'r'
KeyRefresh ==
    /\ pc = "poll"
    /\ cmd' = "refresh"
    /\ Fetch(creds, app)
    /\ UNCHANGED << creds, exit, trail, term, shown >>
    /\ Session

\* Down or 'j'
KeyNextItem ==
    /\ pc = "poll"
    /\ cmd' = "next_item"
    /\ app' = update_detail(next_item(app))
    /\ requests' = << >>
    /\ pc' = "loop"
    /\ UNCHANGED << creds, exit, trail, term, shown, http, result >>
    /\ Session

\* Up or 'k'
KeyPrevItem ==
    /\ pc = "poll"
    /\ cmd' = "prev_item"
    /\ app' = update_detail(prev_item(app))
    /\ requests' = << >>
    /\ pc' = "loop"
    /\ UNCHANGED << creds, exit, trail, term, shown, http, result >>
    /\ Session

\* The quit key with the loop going on
KeyQuit_KeepsLooping ==
    /\ pc = "poll"
    /\ cmd' = "quit"
    /\ app' = [app EXCEPT !.should_quit = TRUE]
    /\ requests' = << >>
    /\ pc' = "loop"
    /\ UNCHANGED << creds, exit, trail, term, shown, http, result >>
    /\ Session

\* 'q' or Esc: should_quit ends the loop; disable_raw_mode?,
\* LeaveAlternateScreen?, and run returns Ok; failed names the first of the
\* two calls that fails
KeyQuit ==
    /\ pc = "poll"
    /\ cmd' = "quit"
    /\ app' = [app EXCEPT !.should_quit = TRUE]
    /\ requests' = << >>
    /\ \E failed \in {"disable_raw_mode", "LeaveAlternateScreen", "none"} :
        /\ term' = [term EXCEPT !.raw = (failed = "disable_raw_mode"),
                                !.alt = (failed # "none")]
        /\ exit' = IF failed = "none" THEN "ok" ELSE "fail"
    /\ pc' = "done"
    /\ UNCHANGED << creds, trail, shown, http, result >>
    /\ Session

NextDash ==
    \/ Launch
    \/ FetchDone
    \/ Draw
    \/ Poll
    \/ KeyNextTab
    \/ KeyPrevTab
    \/ KeyRefresh
    \/ KeyNextItem
    \/ KeyPrevItem
    \/ KeyQuit
    \/ Exit

SpecDash == InitNoFile /\ [][NextDash]_vars

---------------------------------------------------------------------------
(* Properties *)

\* The commands that call require_auth
AuthCmds == {"resource", "whoami", "dashboard"}

Present(o) == o # None
NonEmpty(o) == o # None /\ o[1] # EmptyStr

\* The persisted record R of the claims: the parsed file, the empty record
\* when there is no file
Record == IF file.kind = "absent" THEN DefaultCreds ELSE from_str(file.obj)
Corrupt == file.kind = "garbage" \/ (file.kind = "json" /\ ~ParseOk(file.obj))

HasHeader(req, name) == \E i \in DOMAIN req.headers : req.headers[i][1] = name
Carries(req, name, value) == \E i \in DOMAIN req.headers : req.headers[i] = <<name, value>>

\* C1: load(F.url, F.key) over a record R (or no file) in environment E gives
\* api_url and api_key from F when F gives one, else from E when the variable
\* is set and not empty, else from R; environment_id from E when set and not
\* empty, else from R; auth_token, tenant_id and user_id from R.
C1_ResolvePrecedence ==
    (cmd = "load" /\ ~Corrupt) =>
        /\ creds.api_url =
              IF flags.api_url # None THEN flags.api_url[1]
              ELSE IF NonEmpty(env.FLEXPRICE_API_URL) THEN env.FLEXPRICE_API_URL[1]
              ELSE Record.api_url
        /\ creds.api_key =
              IF flags.api_key # None THEN flags.api_key
              ELSE IF NonEmpty(env.FLEXPRICE_API_KEY) THEN env.FLEXPRICE_API_KEY
              ELSE Record.api_key
        /\ creds.environment_id =
              IF NonEmpty(env.FLEXPRICE_ENVIRONMENT_ID) THEN env.FLEXPRICE_ENVIRONMENT_ID
              ELSE Record.environment_id
        /\ creds.auth_token = Record.auth_token
        /\ creds.tenant_id = Record.tenant_id
        /\ creds.user_id = Record.user_id
        /\ exit = "ok"

\* A resolution where the three layers meet: a flag for the URL, no flag but
\* a variable for the key, a variable set to "" for the environment id, over
\* a record that holds all of them
C1_Witness ==
    /\ cmd = "load"
    /\ file.kind = "json" /\ ~Corrupt
    /\ Record.api_url # EmptyStr /\ Present(Record.api_key) /\ Present(Record.environment_id)
    /\ Present(Record.auth_token)
    /\ flags.api_url = Some(<<"c">>) /\ flags.api_key = None
    /\ NonEmpty(env.FLEXPRICE_API_URL) /\ NonEmpty(env.FLEXPRICE_API_KEY)
    /\ env.FLEXPRICE_ENVIRONMENT_ID = Some(EmptyStr)
    /\ creds.api_url = <<"c">> /\ creds.api_key = env.FLEXPRICE_API_KEY
    /\ creds.environment_id = Record.environment_id

\* C2: a command started with --api-url and/or --api-key authenticates and
\* addresses its request with the flag values.
C2_FlagsWin ==
    (cmd \in AuthCmds /\ exit # "none") =>
        /\ flags.api_key # None =>
              /\ creds.api_key = flags.api_key
              /\ requests # << >> => Carries(requests[1], "x-api-key", flags.api_key[1])
        /\ flags.api_url # None => creds.api_url = flags.api_url[1]

\* C3: every request carries x-api-key with the key when the client's
\* credentials have an api_key, else Authorization "Bearer "+token when they
\* have an auth_token, else neither, never both; and x-environment-id exactly
\* when environment_id is set.
C3_AuthHeaders ==
    \A i \in DOMAIN requests :
        LET r == requests[i] IN
        /\ ~(HasHeader(r, "x-api-key") /\ HasHeader(r, "Authorization"))
        /\ IF Present(creds.api_key)
           THEN Carries(r, "x-api-key", creds.api_key[1])
           ELSE IF Present(creds.auth_token)
           THEN Carries(r, "Authorization", <<"Bearer ">> \o creds.auth_token[1])
           ELSE ~HasHeader(r, "x-api-key") /\ ~HasHeader(r, "Authorization")
        /\ HasHeader(r, "x-environment-id") <=> Present(creds.environment_id)

\* C4 as stated: is_authenticated is true iff api_key or auth_token is a
\* non-empty string.
C4_NonEmptyIff ==
    (cmd \in AuthCmds /\ exit # "none") =>
        (authOk <=> (NonEmpty(creds.api_key) \/ NonEmpty(creds.auth_token)))

\* C4: is_authenticated is true iff api_key or auth_token is present, an
\* empty string included; it is false for the default record.
C4_PresentIff ==
    (cmd \in AuthCmds /\ exit # "none") =>
        /\ authOk <=> (Present(creds.api_key) \/ Present(creds.auth_token))
        /\ creds = DefaultCreds => ~authOk

\* A record whose only credential is an empty string counts as authenticated
C4_Witness ==
    /\ cmd \in AuthCmds /\ exit # "none"
    /\ authOk
    /\ creds.api_key = None
    /\ creds.auth_token = Some(EmptyStr)

\* C5: a command that requires authentication sends no request when the
\* resolved credentials have neither api_key nor auth_token: it prints the
\* guidance and ends with failure.
C5_NoRequestUnauthenticated ==
    (cmd \in AuthCmds /\ exit # "none"
        /\ ~Present(creds.api_key) /\ ~Present(creds.auth_token)) =>
        /\ requests = << >>
        /\ exit = "fail"
        /\ output = "not_authenticated"

\* The dashboard started over a record without credentials
C5_Witness ==
    /\ cmd = "dashboard"
    /\ file.kind = "json" /\ ~Corrupt
    /\ creds.api_key = None /\ creds.auth_token = None
    /\ Present(creds.tenant_id)
    /\ requests = << >>
    /\ exit = "fail"
    /\ output = "not_authenticated"

\* C6: after a set_api_key that succeeded over a record holding an
\* auth_token, the record still holds that auth_token.
C6_TokenKept ==
    [][(cmd' = "set_api_key" /\ exit' = "ok" /\ ~Corrupt /\ Present(Record.auth_token))
        => load_from_file(file').val.auth_token = Record.auth_token]_vars

\* C7 as stated: after a login that succeeded the next request carries the
\* Authorization bearer header.
C7_NextRequestBearer ==
    (prevLogin # None /\ cmd \in AuthCmds /\ requests # << >>) =>
        Carries(requests[1], "Authorization", <<"Bearer ">> \o prevLogin[1])

\* C7: after a login that succeeded, whatever the file held, the record has
\* the token, tenant and user of the answer and no api_key; and the request
\* of the next command that requires authentication carries the bearer
\* header with that token unless FLEXPRICE_API_KEY is set and not empty.
C7_LoginRecord ==
    /\ (cmd = "login" /\ exit = "ok") =>
          /\ load_from_file(file).ok
          /\ Record.auth_token = Some(response.token)
          /\ Record.tenant_id = Some(response.tenant_id)
          /\ Record.user_id = Some(response.user_id)
          /\ Record.api_key = None
    /\ (prevLogin # None /\ cmd \in AuthCmds /\ exit # "none"
            /\ ~NonEmpty(env.FLEXPRICE_API_KEY)) =>
          /\ authOk
          /\ requests # << >> =>
                /\ Carries(requests[1], "Authorization", <<"Bearer ">> \o prevLogin[1])
                /\ ~HasHeader(requests[1], "x-api-key")

\* A login that succeeded and stored the answer's token, tenant and user
C7_Witness ==
    /\ cmd = "login" /\ exit = "ok"
    /\ saved # None
    /\ response.token = <<"lt">>
    /\ Record.tenant_id = Some(<<"lten">>)
    /\ Record.user_id = Some(<<"lusr">>)
    /\ Record.api_key = None

\* C8: the file changes only in a login whose request succeeded, a
\* set_api_key whose health check succeeded, and a logout.
C8_OnlyWritersWrite ==
    [][file' # file =>
          \/ cmd' \in {"login", "set_api_key"} /\ exit' = "ok" /\ CallOk(response')
          \/ cmd' = "logout"]_vars

\* A login whose request failed, over a record, with the variables set
C8_Witness ==
    /\ cmd = "login" /\ exit = "fail"
    /\ requests # << >>
    /\ response.kind = "non_success"
    /\ file.kind = "json"
    /\ ~Corrupt
    /\ Present(Record.api_key)
    /\ NonEmpty(env.FLEXPRICE_API_KEY)

\* C9: over a file that does not parse, a command that resolves credentials
\* ends with failure and reports the corrupt record.
C9_CorruptPropagates ==
    (cmd \in AuthCmds \cup {"config"} /\ exit # "none" /\ Corrupt) =>
        /\ exit = "fail"
        /\ output = "corrupt"
        /\ requests = << >>

\* C10: load_from_file after save(c), with no write in between, succeeds and
\* returns c; save leaves the directory and the file in place.
C10_RoundTrip ==
    /\ (cmd = "load_from_file" /\ saved # None) =>
          /\ output = "ok"
          /\ creds = saved[1]
    /\ cmd = "save" => dirExists /\ file.kind = "json"

\* A record with an empty token and no key read back
C10_Witness ==
    /\ cmd = "load_from_file"
    /\ saved # None
    /\ saved[1].auth_token = Some(EmptyStr)
    /\ saved[1].api_key = None
    /\ saved[1].api_url = EmptyStr
    /\ creds = saved[1]

---------------------------------------------------------------------------
(* Properties of the client's operations *)

ClientCalled == cmd \in ClientOps \cup {"health_check"}

\* The base URL the request was composed with: its URL without the path
SentBase == SubSeq(requests[1].url, 1, Len(requests[1].url) - 1)

AllSlashes(s) == \A i \in DOMAIN s : s[i] = "/"

\* C11: the base URL every request is composed with is the hardcoded default
\* when api_url is empty, otherwise api_url without its trailing slash; in
\* every case it is not empty and does not end with "/".
C11_BaseUrl ==
    ClientCalled =>
        LET base == SentBase
            u == creds.api_url
        IN  /\ u = EmptyStr => base = DefaultBaseUrl
            /\ u # EmptyStr =>
                  /\ Len(base) <= Len(u)
                  /\ base = SubSeq(u, 1, Len(base))
                  /\ AllSlashes(SubSeq(u, Len(base) + 1, Len(u)))
            /\ base # EmptyStr
            /\ base[Len(base)] # "/"

Responded == http.kind = "response"
NonSuccess == Responded /\ ~is_success(http.status)

\* C12: every operation of the client sends exactly one request per call;
\* after a transport failure, a status that is no success or a body that
\* does not decode, no second request is sent and the call fails with an
\* error that wraps the cause.
C12_OneRequest ==
    ClientCalled =>
        /\ Len(requests) = 1
        /\ http.kind = "transport_error" => ~result.ok /\ result.cause = "transport"
        /\ NonSuccess => ~result.ok /\ result.msg # EmptyStr
        /\ (cmd \in TypedOps /\ Responded /\ is_success(http.status) /\ ~http.typed) =>
              ~result.ok /\ result.cause = "decode"

\* A typed call whose success answer did not decode: one request, no retry
C12_Witness ==
    /\ cmd = "post"
    /\ Responded /\ is_success(http.status) /\ ~http.typed
    /\ ~result.ok /\ result.cause = "decode"
    /\ Len(requests) = 1

\* The members of a structured error body
ErrorOf(b) == DeOption(Get(b.json, "error"))
MessageOf(b) == DeOption(Get(b.json, "message"))
HintOf(b) == DeOption(Get(b.json, "hint"))

\* "{status} ({reason}): {m}", with " - {hint}" when there is a hint
Structured(status, b) ==
    <<status.text, " (", status.reason, "): ">>
    \o (IF ErrorOf(b) # None THEN ErrorOf(b)[1] ELSE MessageOf(b)[1])
    \o (IF HintOf(b) # None THEN <<" - ">> \o HintOf(b)[1] ELSE << >>)

\* C13: get, post, post_empty, put, delete and delete_empty, on a status that
\* is no success with a body that parses as the structured error object, fail
\* with "{status} ({reason}): {m}", m the error member if present, else the
\* message member, and " - {hint}" appended exactly when there is a hint.
C13_StructuredError ==
    (cmd \in ClientOps \ {"get_text"} /\ NonSuccess /\ ApiErrorOk(http.body)
     /\ (ErrorOf(http.body) # None \/ MessageOf(http.body) # None)) =>
        ~result.ok /\ result.msg = Structured(http.status, http.body)

C15_TextAsTyped ==
    cmd = "get_text" =>
        /\ (Responded /\ is_success(http.status)) => result.ok /\ result.val = http.body
        /\ ~(Responded /\ is_success(http.status)) =>
              ~result.ok /\ result.msg = Outcome("get", http).msg

\* C16: health_check succeeds exactly when /health answers with a success
\* status; a transport failure and every other status end in the same way,
\* an error returned to the caller.
C16_Health ==
    cmd = "health_check" =>
        /\ requests[1].url = SentBase \o <<"/health">>
        /\ result.ok <=> (Responded /\ is_success(http.status))
        /\ ~result.ok => result.msg # EmptyStr /\ result.val = EmptyText

\* /health answered 500 with a structured body: the check fails
C16_Witness ==
    /\ cmd = "health_check"
    /\ http.status.code = 500
    /\ ApiErrorOk(http.body)
    /\ ~result.ok

\* C17: set_api_key persists the key only when the server has accepted that
\* key: the request it validates with presents the key it saves.
C17_KeyAccepted ==
    (cmd = "set_api_key" /\ output = "validated_and_saved") =>
        /\ saved # None
        /\ Carries(requests[1], "x-api-key", saved[1].api_key[1])

---------------------------------------------------------------------------
(* Properties of the dashboard *)

TabKeys == {"next_tab", "prev_tab"}

\* A key has just been handled up to the await of its fetch
FetchIssued(k) == cmd' = k /\ pc = "poll" /\ pc' = "fetch"
\* The fetch a key issued has just resolved
FetchResolved(k) == cmd = k /\ pc = "fetch" /\ pc' = "loop"

\* The one request that fetches the tab
TabRequest(c, tab) ==
    << [method |-> "GET",
        url |-> ApiClientNew(c).base_url \o <<TAB_ENDPOINTS[tab + 1]>>,
        headers |-> apply_auth(ApiClientNew(c))] >>

\* What the session displays of a fetch
Shown(a) == << a.data_items, a.detail_text, a.error >>

\* C18: with N tabs the active tab stays in 0..N-1; nextTab on tab i gives
\* (i+1) mod N and prevTab gives (i-1+N) mod N; N nextTabs in a row come back
\* to the tab they started on; prevTab after nextTab, and nextTab after
\* prevTab, come back to the tab before the two.
C18_TabCycle ==
    LET n == Len(TABS) IN
    /\ app.active_tab \in 0..(n - 1)
    /\ trail.key = "next" => app.active_tab = (trail.from + 1) % n
    /\ trail.key = "prev" => app.active_tab = (trail.from - 1 + n) % n
    /\ (trail.key = "next" /\ trail.run = n) => app.active_tab = trail.start
    /\ (trail.key = "prev" /\ trail.key2 = "next") => app.active_tab = trail.from2
    /\ (trail.key = "next" /\ trail.key2 = "prev") => app.active_tab = trail.from2

\* N nextTabs in a row, started on the fourth tab, have wrapped around
C18_Witness ==
    /\ trail.key = "next"
    /\ trail.run = Len(TABS)
    /\ trail.start = 3
    /\ app.active_tab = 3
    /\ pc = "loop"

\* C19: nextTab and prevTab clear items, detail and error and issue exactly
\* one fetch, against the endpoint of the new active tab; once it has
\* resolved, items, detail and error are what that fetch's outcome gives on
\* a fresh session, and the error is set exactly when the fetch failed.
C19_TabFetch ==
    [][ /\ (\E k \in TabKeys : FetchIssued(k)) =>
              /\ app'.data_items = << >>
              /\ app'.detail_text = EmptyText
              /\ app'.error = None
              /\ requests' = TabRequest(creds', app'.active_tab)
        /\ (\E k \in TabKeys : FetchResolved(k)) =>
              /\ requests' = requests
              /\ app'.active_tab = app.active_tab
              /\ Shown(app') = Shown(load_data_end(load_data_begin(AppNew), result'))
              /\ app'.error # None <=> ~result'.ok
      ]_vars

\* prevTab on the first tab went to the last one, and its fetch failed
C19_Witness ==
    /\ cmd = "prev_tab"
    /\ pc = "loop"
    /\ app.active_tab = Len(TABS) - 1
    /\ app.error # None
    /\ app.data_items = << >>
    /\ Len(requests) = 1

\* C20: when the fetch of launch, nextTab, prevTab or refresh has resolved,
\* with a success or a failure, the selected index is 0; refresh leaves the
\* active tab as it is and fetches the endpoint of that tab.
C20_SelectionReset ==
    [][ /\ (pc = "fetch" /\ pc' = "loop") =>
              /\ cmd \in {"launch", "refresh"} \cup TabKeys
              /\ app'.selected = Some(0)
        /\ FetchIssued("refresh") =>
              /\ app'.active_tab = app.active_tab
              /\ requests' = TabRequest(creds', app.active_tab)
        /\ FetchResolved("refresh") => app'.active_tab = app.active_tab
      ]_vars

\* A refresh on the third tab that failed
C20_Witness ==
    /\ cmd = "refresh"
    /\ pc = "loop"
    /\ app.active_tab = 2
    /\ app.error # None
    /\ app.selected = Some(0)

ItemKeys == {"next_item", "prev_item"}

\* An item key has just been handled
ItemKeyHandled(k) == cmd' = k /\ pc = "poll" /\ pc' = "loop"

\* C21: with n > 0 items and selection i, nextItem selects (i+1) mod n and
\* prevItem (i-1+n) mod n; with no items they change nothing; in all cases
\* no HTTP request is sent and active tab, items and error stay unchanged.
C21_ItemKeys ==
    [][ \A k \in ItemKeys :
          ItemKeyHandled(k) =>
              LET n == Len(app.data_items)
                  i == Selected(app)
              IN  /\ n > 0 => app'.selected = Some(IF k = "next_item" THEN (i + 1) % n
                                                    ELSE (i - 1 + n) % n)
                  /\ n = 0 => app' = app
                  /\ requests' = << >>
                  /\ http' = http
                  /\ pc' # "fetch"
                  /\ app'.active_tab = app.active_tab
                  /\ app'.data_items = app.data_items
                  /\ app'.error = app.error
      ]_vars

\* nextItem on the last of three items has wrapped around to the first
C21_Witness ==
    /\ cmd = "next_item"
    /\ pc = "loop"
    /\ Len(app.data_items) = 3
    /\ app.selected = Some(0)

\* The session waits in its loop after a fetch that succeeded with a payload
\* that has an items array
HasItems ==
    /\ pc \in {"loop", "poll"}
    /\ result.ok
    /\ IsJson(result.val)
    /\ IsJArr(Get(result.val.json, "items"))

\* The elements of the items array of the fetched payload
FetchedItems == Get(result.val.json, "items")[2]

\* C22: after any sequence of nextItem/prevItem that follows a successful
\* fetch of a payload with an items array, the detail text is the
\* pretty-printed element of the fetched payload at the selected index.
C22_DetailFollows ==
    (HasItems /\ FetchedItems # << >>) =>
        /\ Selected(app) < Len(FetchedItems)
        /\ app.detail_text = PrettyText(FetchedItems[Selected(app) + 1])

\* C23: when the fetched body is JSON with a top-level items array, the item
\* list has one line per element, in order; each line is "{id}  {displayName}"
\* followed by "  [{status}]" only when a status-like field is present; id is
\* the id field or "?", displayName the first present of name, email,
\* event_name or "-", status the first present of status,
\* subscription_status, invoice_status, wallet_status.  A field is present
\* when the item has a string for it.
C23_ItemLines ==
    LET Strs(item, keys) == {i \in DOMAIN keys : IsJStr(Get(item, keys[i]))}
        FirstOf(item, keys) ==
            Get(item, keys[CHOOSE i \in Strs(item, keys) :
                               \A j \in Strs(item, keys) : i <= j])[2]
        names == <<"name", "email", "event_name">>
        statuses == <<"status", "subscription_status", "invoice_status", "wallet_status">>
        LineOf(item) ==
            (IF Strs(item, <<"id">>) = {} THEN <<"?">> ELSE FirstOf(item, <<"id">>))
            \o <<"  ">>
            \o (IF Strs(item, names) = {} THEN <<"-">> ELSE FirstOf(item, names))
            \o (IF Strs(item, statuses) = {} THEN << >>
                ELSE <<"  [">> \o FirstOf(item, statuses) \o <<"]">>)
    IN  HasItems =>
            /\ Len(app.data_items) = Len(FetchedItems)
            /\ \A i \in DOMAIN FetchedItems : app.data_items[i] = LineOf(FetchedItems[i])

\* C24: a failed fetch is captured, not propagated: the error is the
\* failure's message, items and detail are empty (also those an earlier
\* successful fetch of the same tab left), the session keeps running and
\* keeps accepting nextTab, prevTab, refresh and quit.
C24_FailureCaptured ==
    /\ []((pc \in {"loop", "poll"} /\ ~result.ok) =>
            /\ app.error = Some(result.msg)
            /\ app.data_items = << >>
            /\ app.detail_text = EmptyText
            /\ exit = "running"
            /\ ~app.should_quit
            /\ pc = "poll" => /\ ENABLED KeyNextTab
                              /\ ENABLED KeyPrevTab
                              /\ ENABLED KeyRefresh
                              /\ ENABLED KeyQuit)
    /\ [][pc = "fetch" => pc' = "loop" /\ exit' = "running"]_vars

\* The refresh of a tab has failed and the session waits for the next key
C24_Witness ==
    /\ cmd = "refresh"
    /\ pc = "poll"
    /\ ~result.ok
    /\ app.error = Some(result.msg)
    /\ result.cause = "transport"

\* C25 as stated: when a fetch has succeeded with a payload that has an
\* items array, the detail the session holds once the fetch has completed is
\* the full payload, pretty-printed.
C25_FullPayload ==
    (HasItems /\ cmd \in {"launch", "refresh"} \cup TabKeys) =>
        app.detail_text = PrettyText(result.val.json)

\* C25, amended: when a fetch has succeeded with a payload that has an items
\* array, the detail the session holds once the fetch has completed is the
\* first element of the array, pretty-printed, and the full payload only when
\* the array is empty.
C25_FirstElement ==
    (HasItems /\ cmd \in {"launch", "refresh"} \cup TabKeys) =>
        app.detail_text = IF FetchedItems = << >> THEN PrettyText(result.val.json)
                          ELSE PrettyText(FetchedItems[1])

\* A tab key's fetch has brought two items and the detail holds the first
C25_Witness ==
    /\ HasItems
    /\ cmd \in TabKeys
    /\ Len(FetchedItems) = 2
    /\ app.detail_text = PrettyText(FetchedItems[1])
    /\ app.detail_text # PrettyText(result.val.json)

\* C26: when a fetched body is JSON without an items array, the item list is
\* the one placeholder "(no items)" and the detail is the full payload,
\* pretty-printed; when it is not JSON, the item list is the one placeholder
\* "(raw response)" and the detail is the raw body; in both cases the error
\* is absent.
C26_Placeholders ==
    LET body == result.val IN
    (pc \in {"loop", "poll"} /\ result.ok /\ ~IsJArr(Get(body.json, "items"))) =>
        /\ app.error = None
        /\ IsJson(body) => /\ app.data_items = << <<"(no items)">> >>
                           /\ app.detail_text = PrettyText(body.json)
        /\ ~IsJson(body) => /\ app.data_items = << <<"(raw response)">> >>
                            /\ app.detail_text = body

\* A body that is no JSON has been fetched and is shown raw
C26_Witness ==
    /\ pc = "poll"
    /\ result.ok
    /\ ~IsJson(result.val)
    /\ result.val # EmptyText
    /\ app.data_items = << <<"(raw response)">> >>
    /\ app.detail_text = result.val

\* C27: every transition that triggers a fetch puts the session in the
\* Loading render mode, which is the mode shown while the fetch is
\* outstanding; when the fetch resolves the session is in exactly one of
\* Error (error set) and Ready (error absent), with loading false.
C27_LoadingShown ==
    /\ [](pc = "fetch" => (ui(app) = "Loading" /\ shown = "Loading"))
    /\ [][pc = "fetch" =>
            /\ pc' = "loop"
            /\ ~app'.loading
            /\ ui(app') = IF app'.error # None THEN "Error" ELSE "Ready"
            /\ app'.error # None <=> ~result'.ok
         ]_vars

\* C28: quit is terminal: once a quit key has been handled the event loop
\* has ended with the iteration that handled it, and no fetch, tab change or
\* selection change happens in the session after it.
C28_QuitTerminal ==
    /\ [](app.should_quit => (pc = "done" /\ exit # "running"))
    /\ [][(cmd' = "quit" /\ pc = "poll") =>
             /\ pc' = "done"
             /\ app' = [app EXCEPT !.should_quit = TRUE]
             /\ requests' = << >>
         ]_vars
    /\ [][(app.should_quit /\ cmd' # "launch") =>
             /\ app' = app
             /\ requests' = << >>
             /\ pc' = "done"
         ]_vars

\* The session was quit with the selection on the second of three items,
\* and its process has ended
C28_Witness ==
    /\ app.should_quit
    /\ exit = "none"
    /\ pc = "done"
    /\ Len(app.data_items) = 3
    /\ app.selected = Some(1)

\* C29 as stated: in every state of a session the selected index is present
\* and, whenever the item list is non-empty, is smaller than the number of
\* items; and whenever the error is set, the item list and the detail are
\* empty.
C29_SelectionPresent ==
    /\ app.selected # None
    /\ app.data_items # << >> => Selected(app) < Len(app.data_items)
    /\ app.error # None => (app.data_items = << >> /\ app.detail_text = EmptyText)

\* C29, amended: whenever the item list is non-empty, the selected index is
\* present and smaller than the number of items; it is absent only when a
\* frame has drawn the empty item list of a fetch without error; and
\* whenever the error is set, the item list and the detail are empty.
C29_SelectionInRange ==
    /\ app.data_items # << >> =>
           (app.selected # None /\ Selected(app) < Len(app.data_items))
    /\ app.selected = None =>
           (app.data_items = << >> /\ app.error = None /\ shown = "Ready")
    /\ app.error # None => (app.data_items = << >> /\ app.detail_text = EmptyText)

\* prevItem on the first of three items has selected the last
C29_Witness ==
    /\ cmd = "prev_item"
    /\ Len(app.data_items) = 3
    /\ app.selected = Some(2)
    /\ app.error = None

\* C30: whenever run returns after having enabled raw mode and entered the
\* alternate screen, on quit or with an error (client construction, draw,
\* poll or read failing), raw mode has been disabled and the alternate
\* screen left before it returns.
C30_TerminalRestored ==
    (pc = "done" /\ term.entered) => (~term.raw /\ ~term.alt)

====
